---- MODULE Spec2Model ----
(***************************************************************************)
(* rss2mail: the feed store (DatabaseService over the mysql wrapper), the  *)
(* fetcher (RssService), the notifier (EmailService) and the scheduled     *)
(* pipeline (App.processFeeds driven by node-cron), as a state machine.    *)
(*                                                                         *)
(* JavaScript values that cross the mysql wrapper are modelled by their    *)
(* shape: an array, a row object, a result header, or undefined.  The      *)
(* wrapper's sql() returns the FIRST element of mysql2's [results, fields] *)
(* pair; DatabaseService destructures what sql() returns once more.        *)
(***************************************************************************)
EXTENDS Integers, Sequences, FiniteSets, Bags, TLC

\* ------------------------------------------------------------- bounds
MaxFeedId == 2
MaxPostId == 3
MaxTicks == 2
MaxSavers == 2

\* ------------------------------------------------------ configuration
\* App.dev: the "development" switch; the production configuration.
dev == FALSE

\* ------------------------------------------------------------ the web
Urls == {"u1", "u2"}
\* Date.now() as read by a call
Times == {2}
\* an item field the feed document omits
Absent == "absent"
NoDate == 0
\* the network at the time of a request
Nets == {"up", "down"}

\* parser.parseURL(feedUrl): what each address serves when it is reached
\* (the parser throws when it is not).  u2 repeats u1's title "X" under
\* another link and carries an item with neither link nor date; u1 carries
\* an item without a link too.
ParseURL(feedUrl, net) ==
    IF net = "down" THEN [ok |-> FALSE, items |-> << >>]
    ELSE IF feedUrl = "u1"
    THEN [ok |-> TRUE,
          items |-> << [title |-> "X", link |-> "l1", content |-> "cx",
                        contentSnippet |-> "sx", pubDate |-> 2],
                       [title |-> "Y", link |-> Absent, content |-> "cy",
                        contentSnippet |-> Absent, pubDate |-> 1] >>]
    ELSE [ok |-> TRUE,
          items |-> << [title |-> "X", link |-> "l3", content |-> "cx",
                        contentSnippet |-> "sx", pubDate |-> 3],
                       [title |-> "Z", link |-> Absent, content |-> Absent,
                        contentSnippet |-> "sz", pubDate |-> NoDate] >>]

\* JavaScript's a || b on strings: an absent or empty a yields b
OrElse(a, b) == IF a = Absent \/ a = "" THEN b ELSE a

\* RssService.fetchFeed: the candidates of one feed, [] on any failure
fetchFeed(feedUrl, feedId, now, net) ==
    LET feed == ParseURL(feedUrl, net)
        post(item) == [title |-> OrElse(item.title, ""),
                       link |-> OrElse(item.link, ""),
                       content |-> OrElse(item.content, OrElse(item.contentSnippet, "")),
                       pubDate |-> IF item.pubDate = NoDate THEN now ELSE item.pubDate,
                       feedId |-> feedId,
                       sent |-> FALSE]
        posts == [i \in 1..Len(feed.items) |-> post(feed.items[i])]
    IN  IF ~feed.ok THEN << >>
        ELSE IF dev THEN SubSeq(posts, 1, 1)
        ELSE posts

\* what an address answers a plain GET with: an RSS or an Atom document,
\* a well-formed document of another kind, or text that is not XML
Docs == {"rss", "atom", "html", "garbage"}

\* validateFeedUrl with only the parse error looked at
validateParsesOnly(net, doc) ==
    IF net = "down" THEN "Failed to fetch feed"
    ELSE IF doc = "garbage" THEN "Invalid RSS feed"
    ELSE "true"

\* RssService.validateFeedUrl: resolves to true, or rejects with a message
validateFeedUrl(net, doc) ==
    IF net = "down" THEN "Failed to fetch feed"
    ELSE IF doc = "garbage" THEN "Invalid RSS feed"
    ELSE IF doc \in {"rss", "atom"} THEN "true"
    ELSE "Not a valid RSS feed"

\* ------------------------------------------------- JavaScript values
Undefined == [kind |-> "undefined"]
Arr(s) == [kind |-> "array", items |-> s]
Obj(r) == [kind |-> "object", row |-> r]
\* mysql2's ResultSetHeader / OkPacket of an INSERT, UPDATE or DELETE
Header(n, id) == [kind |-> "header", affectedRows |-> n, insertId |-> id]
TypeError == [kind |-> "TypeError"]

\* const [x] = v, for v the value sql() returned: the first element of an
\* array (undefined when it is empty).  A result header is not iterable:
\* the destructuring throws, or, compiled to v[0], yields undefined.
FirstOf(v, indexed) ==
    IF v.kind = "array"
    THEN IF Len(v.items) = 0 THEN Undefined ELSE Obj(v.items[1])
    ELSE IF indexed THEN Undefined ELSE TypeError

\* v.length > 0 as JavaScript evaluates it: only an array has a length
LengthPositive(v) == v.kind = "array" /\ Len(v.items) > 0

\* ---------------------------------------------------------- the store
VARIABLES
    feeds,        \* table feeds: a set of rows
    posts,        \* table posts: a set of rows
    nextFeedId,   \* feeds.id AUTO_INCREMENT
    nextPostId,   \* posts.id AUTO_INCREMENT
    proc,         \* the process: "running" or "exited" (process.exit)
    booted,       \* startCronJob has run: the schedule is registered
    downlevel,    \* the build of the running program: TRUE when for..of is
                  \* compiled to an index loop; drawn when the pipeline starts
    tick,         \* the executions of processFeeds in progress: a bag of
                  \* where each is suspended
    saver,        \* the executions of saveNewPosts in progress: a bag of the
                  \* candidates each has left
    ret           \* what the call that just returned gave its caller

vars == <<feeds, posts, nextFeedId, nextPostId, proc, booted, downlevel, tick, saver, ret>>

\* SHA2(s, 256), the triggers' fingerprint: one-way and collision free
SHA2(s) == <<"sha2", s>>

NULL == "NULL"

FeedIds == {f.id : f \in feeds}

NoRet == [op |-> "none"]

Running == proc = "running"

\* ------------------------------------------------------ SQL statements
\* The tables and triggers are those createTables declares, on a server
\* that accepts the declarations.  Each statement is one atomic statement
\* of the server; a statement that the server rejects, or a lost
\* connection, ends the process in sql()'s catch.

\* the row INSERT ... SET builds from a candidate; the BEFORE INSERT
\* trigger fills hash, AUTO_INCREMENT fills id
PostRow(c, id) ==
    [id |-> id, title |-> c.title, link |-> c.link, hash |-> SHA2(c.title),
     content |-> c.content, pubDate |-> c.pubDate, feedId |-> c.feedId,
     sent |-> FALSE]

\* whether INSERT IGNORE INTO posts keeps the row: hash UNIQUE, link UNIQUE
\* and the foreign key on feedId all turn the insert into a skipped row
PostAcceptedPerFeed(c, table) ==
    /\ \A p \in table : p.hash # SHA2(c.title) \/ p.feedId # c.feedId
    /\ \A p \in table : p.link # c.link
    /\ c.feedId \in FeedIds
PostAcceptedNoLink(c, table) ==
    /\ \A p \in table : p.hash # SHA2(c.title)
    /\ c.feedId \in FeedIds
PostAcceptedNoHash(c, table) ==
    /\ \A p \in table : p.link # c.link
    /\ c.feedId \in FeedIds
PostAcceptedIn(c, table) ==
    /\ \A p \in table : p.hash # SHA2(c.title)
    /\ \A p \in table : p.link # c.link
    /\ c.feedId \in FeedIds
PostAccepted(c) == PostAcceptedIn(c, posts)

\* the table after INSERT IGNORE INTO posts SET ...
InsertOrUpdatePost(c) ==
    IF PostAccepted(c) THEN posts \cup {PostRow(c, nextPostId)}
    ELSE {IF p.hash = SHA2(c.title)
          THEN [p EXCEPT !.link = c.link, !.content = c.content, !.feedId = c.feedId]
          ELSE p : p \in posts}
InsertOrResetPost(c) ==
    IF PostAccepted(c) THEN posts \cup {PostRow(c, nextPostId)}
    ELSE {IF p.hash = SHA2(c.title) THEN [p EXCEPT !.sent = FALSE] ELSE p : p \in posts}
InsertIgnorePost(c) ==
    IF PostAccepted(c) THEN posts \cup {PostRow(c, nextPostId)} ELSE posts

\* the table after UPDATE posts SET sent = TRUE, without the WHERE
UpdateAllSent(ids) == {[p EXCEPT !.sent = TRUE] : p \in posts}
\* the table after UPDATE posts SET sent = TRUE WHERE id IN (ids)
UpdateSent(ids) ==
    {IF p.id \in ids THEN [p EXCEPT !.sent = TRUE] ELSE p : p \in posts}

\* the row INSERT INTO feeds SET url = ? builds
FeedRow(url, id) ==
    [id |-> id, url |-> url, url_hash |-> SHA2(url), lastChecked |-> NULL]

\* INSERT INTO feeds violates UNIQUE(url_hash): ER_DUP_ENTRY
FeedDuplicate(url) == \E f \in feeds : f.url_hash = SHA2(url)

\* DELETE FROM feeds WHERE url = ? on a posts table without the cascade
KeepPosts(url) == posts
\* DELETE FROM feeds WHERE url = ?, with ON DELETE CASCADE on posts.feedId
DeleteFeeds(url) == {f \in feeds : f.url # url}
CascadePosts(url) ==
    {p \in posts : \A f \in feeds : f.url = url => p.feedId # f.id}

\* the orders SELECT ... ORDER BY pubDate DESC may return the rows of S in
Orderings(S) ==
    {s \in [1..Cardinality(S) -> S] :
        /\ \A i, j \in 1..Cardinality(S) : i # j => s[i] # s[j]
        /\ \A i, j \in 1..Cardinality(S) : i < j => s[i].pubDate >= s[j].pubDate}

\* the rows SELECT * FROM posts WHERE sent = FALSE selects
SelectUnsent == {p \in posts : ~p.sent}

\* the rows SELECT id, url, lastChecked FROM feeds returns, in any order
FeedListings ==
    {s \in [1..Cardinality(feeds) -> feeds] :
        \A i, j \in 1..Cardinality(feeds) : i # j => s[i] # s[j]}

\* ----------------------------------------------------- DatabaseService
\* getUnsentPosts, for the rows the SELECT returned: the first row, or []
\* when there is none; in development mode posts[0] / posts.slice throws.
getUnsentPosts(rows) ==
    LET posts_ == FirstOf(Arr(rows), downlevel)
    IN  IF dev THEN TypeError
        ELSE IF posts_ = Undefined THEN Arr(<< >>) ELSE posts_

\* listFeeds, for the rows the SELECT returned
listFeeds(rows) == FirstOf(Arr(rows), downlevel)

\* what addFeed / removeFeed make of the header sql() returned: the
\* destructuring throws, or .insertId / .affectedRows is read off undefined
HeaderField(h) ==
    LET result == FirstOf(h, downlevel)
    IN  IF result.kind = "header" THEN result ELSE TypeError

\* JavaScript numbers and booleans
Num(n) == [kind |-> "number", val |-> n]
Bool(b) == [kind |-> "boolean", val |-> b]

\* addFeed's `return id`, with id = result.insertId
InsertIdOf(h) ==
    IF HeaderField(h) = TypeError THEN TypeError ELSE Num(HeaderField(h).insertId)

\* removeFeed's `return result.affectedRows > 0`
AffectedRowsPositive(h) ==
    IF HeaderField(h) = TypeError THEN TypeError
    ELSE Bool(HeaderField(h).affectedRows > 0)

\* ------------------------------------------------------------ the start
\* an execution of processFeeds: the await it is suspended at, and (for the
\* record) the ids of the feeds that were registered when it listed them
\* and the state of the network towards each while it ran, and the ids of
\* the feeds its loop called fetchFeed and saveNewPosts for
AtListFeeds == [pc |-> "listFeeds", listed |-> {}, net |-> << >>, fetched |-> {}]
AtGetUnsentPosts(listed, net, fetched) ==
    [pc |-> "getUnsentPosts", listed |-> listed, net |-> net, fetched |-> fetched]
Executions ==
    {AtListFeeds} \cup
    UNION {{AtGetUnsentPosts(l, n, f) : n \in [l -> Nets], f \in {{}, l}} :
              l \in SUBSET (1..MaxFeedId)}
\* the bag of executions after execution e moved on to e2 / ended
Moved(e, e2) == (tick (-) SetToBag({e})) (+) SetToBag({e2})
Ended(e) == tick (-) SetToBag({e})

Init ==
    /\ feeds = {}
    /\ posts = {}
    /\ nextFeedId = 1
    /\ nextPostId = 1
    /\ proc = "running"
    /\ booted = FALSE
    /\ downlevel = FALSE
    /\ tick = EmptyBag
    /\ saver = EmptyBag
    /\ ret = NoRet

\* process.exit(1): the process and every call in progress in it are gone;
\* the tables stay
Exit ==
    /\ proc' = "exited"
    /\ tick' = EmptyBag
    /\ saver' = EmptyBag

\* --------------------------------------------- calls into the services
\* DatabaseService.addFeed(url).  A duplicate url_hash is an error of the
\* statement, which sql() answers with process.exit(1); otherwise the row
\* is inserted and the method then throws on the header it destructures.
\* The throw is the caller's to answer.
addFeed(url) ==
    /\ Running
    /\ IF FeedDuplicate(url)
       THEN /\ Exit
            /\ ret' = [op |-> "addFeed", val |-> Undefined, error |-> "ER_DUP_ENTRY"]
            /\ UNCHANGED <<feeds, nextFeedId>>
       ELSE /\ nextFeedId <= MaxFeedId
            /\ feeds' = feeds \cup {FeedRow(url, nextFeedId)}
            /\ nextFeedId' = nextFeedId + 1
            /\ ret' = [op |-> "addFeed", val |-> InsertIdOf(Header(1, nextFeedId)),
                       error |-> "none"]
            /\ UNCHANGED <<proc, tick, saver>>
    /\ UNCHANGED <<posts, nextPostId, booted, downlevel>>

\* App.addFeed(url), the add command of the command line and of the
\* prompt: validateFeedUrl, then DatabaseService.addFeed.  A rejected
\* validation, the throw of DatabaseService.addFeed and an error of the
\* statement all end in process.exit(1).
appAddFeed(url) ==
    /\ Running
    /\ \E net \in Nets, doc \in Docs :
         LET valid == validateFeedUrl(net, doc)
             inserts == valid = "true" /\ ~FeedDuplicate(url)
         IN  /\ inserts => nextFeedId <= MaxFeedId
             /\ feeds' = IF inserts THEN feeds \cup {FeedRow(url, nextFeedId)} ELSE feeds
             /\ nextFeedId' = IF inserts THEN nextFeedId + 1 ELSE nextFeedId
             /\ ret' = [op |-> "App.addFeed", url |-> url, net |-> net, doc |-> doc,
                        validated |-> valid,
                        error |-> IF valid # "true" THEN valid
                                  ELSE IF FeedDuplicate(url) THEN "ER_DUP_ENTRY"
                                  ELSE "TypeError"]
    /\ Exit
    /\ UNCHANGED <<posts, nextPostId, booted, downlevel>>

\* DatabaseService.removeFeed(url)
removeFeed(url) ==
    /\ Running
    /\ feeds' = DeleteFeeds(url)
    /\ posts' = CascadePosts(url)
    /\ ret' = [op |-> "removeFeed",
               val |-> AffectedRowsPositive(Header(Cardinality(feeds \ DeleteFeeds(url)), 0)),
               affectedRows |-> Cardinality(feeds \ DeleteFeeds(url)),
               error |-> "none"]
    /\ UNCHANGED <<nextFeedId, nextPostId, proc, booted, downlevel, tick, saver>>

\* DatabaseService.saveNewPosts(batch): the call starts, beside fewer than
\* `others` calls in progress; its inserts follow, one awaited statement each
saveNewPosts(batch, others) ==
    /\ Running
    /\ BagCardinality(saver) < others
    /\ batch # << >>
    /\ saver' = saver (+) SetToBag({batch})
    /\ ret' = NoRet
    /\ UNCHANGED <<feeds, posts, nextFeedId, nextPostId, proc, booted, downlevel, tick>>

\* the bag of calls after the call with `left` candidates left did one
LeftAfter(left) ==
    IF Len(left) = 1 THEN saver (-) SetToBag({left})
    ELSE (saver (-) SetToBag({left})) (+) SetToBag({Tail(left)})

\* one iteration of saveNewPosts' loop, in the call with `left` candidates
\* left: INSERT IGNORE of the next candidate
saveInsert(left) ==
    /\ Running
    /\ BagIn(left, saver)
    /\ LET c == Head(left)
       IN  /\ PostAccepted(c) => nextPostId <= MaxPostId
           /\ posts' = InsertIgnorePost(c)
           /\ nextPostId' = IF PostAccepted(c) THEN nextPostId + 1 ELSE nextPostId
           /\ ret' = [op |-> "insert", val |-> c,
                      affectedRows |-> IF PostAccepted(c) THEN 1 ELSE 0,
                      returned |-> Len(left) = 1]
    /\ saver' = LeftAfter(left)
    /\ UNCHANGED <<feeds, nextFeedId, proc, booted, downlevel, tick>>

\* DatabaseService.getUnsentPosts()
callGetUnsentPosts ==
    /\ Running
    /\ \E rows \in Orderings(SelectUnsent) :
          ret' = [op |-> "getUnsentPosts", val |-> getUnsentPosts(rows)]
    /\ UNCHANGED <<feeds, posts, nextFeedId, nextPostId, proc, booted, downlevel, tick, saver>>

\* DatabaseService.markPostsAsSent(ids)
markPostsAsSent(ids) ==
    /\ Running
    /\ posts' = IF ids = {} THEN posts ELSE UpdateSent(ids)
    /\ ret' = [op |-> "markPostsAsSent", val |-> Undefined, ids |-> ids,
               statements |-> IF ids = {} THEN 0 ELSE 1]
    /\ UNCHANGED <<feeds, nextFeedId, nextPostId, proc, booted, downlevel, tick, saver>>

\* a statement of a running saveNewPosts fails (the connection is lost):
\* sql() logs and calls process.exit(1) before saveNewPosts' catch sees it
saveStorageError(left) ==
    /\ Running
    /\ BagIn(left, saver)
    /\ Exit
    /\ ret' = [op |-> "saveNewPosts", val |-> Head(left), rest |-> Tail(left),
               error |-> "storage"]
    /\ UNCHANGED <<feeds, posts, nextFeedId, nextPostId, booted, downlevel>>

\* ------------------------------------------------------- the pipeline
\* for (const feed of v): an array is iterated; undefined throws; a row
\* object throws as not iterable, or, compiled to an index loop over
\* v.length, is passed over without an iteration
ForOf(v) ==
    IF v.kind = "array" THEN "iterates"
    ELSE IF v.kind = "object" /\ downlevel THEN "skips"
    ELSE "throws"

\* saveNewPosts run to its end on a table: the candidates inserted in order
RECURSIVE InsertAll(_, _, _)
InsertAll(cands, table, id) ==
    IF cands = << >> THEN [posts |-> table, next |-> id]
    ELSE IF PostAcceptedIn(Head(cands), table)
         THEN InsertAll(Tail(cands), table \cup {PostRow(Head(cands), id)}, id + 1)
         ELSE InsertAll(Tail(cands), table, id)

\* the loop of processFeeds over an array of feed rows: fetchFeed and
\* saveNewPosts for each (for the first only, in development mode)
RECURSIVE LoopFeeds(_, _, _, _, _)
LoopFeeds(rows, table, id, now, net) ==
    IF rows = << >> THEN [posts |-> table, next |-> id]
    ELSE LET saved == InsertAll(fetchFeed(Head(rows).url, Head(rows).id, now, net[Head(rows).id]),
                                table, id)
         IN  IF dev THEN saved
             ELSE LoopFeeds(Tail(rows), saved.posts, saved.next, now, net)

\* what the end of an execution of processFeeds leaves for its observer;
\* reads holds, for each SELECT of the unsent articles the execution made,
\* the number of rows it returned
TickEnd(outcome, e, reads) ==
    [op |-> "processFeeds", outcome |-> outcome, listed |-> e.listed, net |-> e.net,
     fetched |-> e.fetched, reads |-> reads]

\* startCronJob with the schedule registered and no call of processFeeds
scheduleOnly ==
    /\ Running
    /\ ~booted
    /\ booted' = TRUE
    /\ downlevel' \in BOOLEAN
    /\ ret' = NoRet
    /\ UNCHANGED <<feeds, posts, nextFeedId, nextPostId, proc, tick, saver>>

\* startCronJob: the schedule is registered and processFeeds is called at
\* once; it runs up to its first await, the query of listFeeds
startCronJob ==
    /\ Running
    /\ ~booted
    /\ booted' = TRUE
    /\ downlevel' \in BOOLEAN
    /\ tick' = tick (+) SetToBag({AtListFeeds})
    /\ ret' = NoRet
    /\ UNCHANGED <<feeds, posts, nextFeedId, nextPostId, proc, saver>>

\* the schedule '0 * * * *' comes due: node-cron calls processFeeds,
\* whatever became of the earlier calls
cronFire ==
    /\ Running
    /\ booted
    /\ BagCardinality(tick) < MaxTicks
    /\ tick' = tick (+) SetToBag({AtListFeeds})
    /\ ret' = NoRet
    /\ UNCHANGED <<feeds, posts, nextFeedId, nextPostId, proc, booted, downlevel, saver>>

\* execution e of processFeeds resumes with the result of listFeeds and
\* runs its loop, the network being as in net while it does
tickListed(e) ==
    /\ Running
    /\ BagIn(e, tick)
    /\ e.pc = "listFeeds"
    /\ \E rows \in FeedListings, net \in [FeedIds -> Nets] :
         LET feeds_ == listFeeds(rows)
             e2 == AtGetUnsentPosts(FeedIds, net, {})
             e3 == AtGetUnsentPosts(FeedIds, net, FeedIds)
         IN  CASE ForOf(feeds_) = "throws" ->
                    /\ tick' = Ended(e)
                    /\ ret' = TickEnd("TypeError", e2, << >>)
                    /\ UNCHANGED <<posts, nextPostId>>
               [] ForOf(feeds_) = "skips" ->
                    /\ tick' = Moved(e, e2)
                    /\ ret' = NoRet
                    /\ UNCHANGED <<posts, nextPostId>>
               [] OTHER ->
                    \E now \in Times :
                        LET looped == LoopFeeds(feeds_.items, posts, nextPostId, now, net)
                        IN  /\ tick' = Moved(e, e3)
                            /\ ret' = NoRet
                            /\ posts' = looped.posts
                            /\ nextPostId' = looped.next
    /\ UNCHANGED <<feeds, nextFeedId, proc, booted, downlevel, saver>>

\* EmailService.sendNewPosts(batch) under what SES answers: "200", another
\* status, or a failure of the send
SesAnswers == {"200", "500", "throws"}
\* sendNewPosts without its first line
sendWhatever(batch, ses) ==
    IF ses = "throws" THEN [val |-> FALSE, sent |-> FALSE, thrown |-> TRUE]
    ELSE [val |-> ses = "200", sent |-> TRUE, thrown |-> FALSE]
sendNewPosts(batch, ses) ==
    IF batch.kind = "array" /\ Len(batch.items) = 0
    THEN [val |-> FALSE, sent |-> FALSE, thrown |-> FALSE]
    ELSE IF dev THEN [val |-> TRUE, sent |-> FALSE, thrown |-> FALSE]
    ELSE IF ses = "throws" THEN [val |-> FALSE, sent |-> FALSE, thrown |-> TRUE]
    ELSE [val |-> ses = "200", sent |-> TRUE, thrown |-> FALSE]

\* EmailService.sendNewPosts(batch), called with the empty list or with the
\* unsent articles
callSendNewPosts ==
    /\ Running
    /\ \E rows \in {<< >>} \cup Orderings(SelectUnsent), ses \in SesAnswers :
          ret' = [op |-> "sendNewPosts", batch |-> Arr(rows), ses |-> ses,
                  out |-> sendNewPosts(Arr(rows), ses)]
    /\ UNCHANGED <<feeds, posts, nextFeedId, nextPostId, proc, booted, downlevel, tick, saver>>

\* the ids processFeeds passes to markPostsAsSent: unsentPosts.map(post => post.id)
IdsOf(unsentPosts) == {unsentPosts.items[i].id : i \in 1..Len(unsentPosts.items)}

\* execution e of processFeeds resumes with the result of getUnsentPosts:
\* when it has a positive length the batch is sent and then all of it
\* marked, the value sendNewPosts returns being dropped; a throw ends the
\* execution
tickSelected(e) ==
    /\ Running
    /\ BagIn(e, tick)
    /\ e.pc = "getUnsentPosts"
    /\ \E rows \in Orderings(SelectUnsent) :
         LET unsentPosts == getUnsentPosts(rows)
         IN  IF unsentPosts = TypeError
             THEN /\ ret' = TickEnd("TypeError", e, <<Len(rows)>>)
                  /\ UNCHANGED posts
             ELSE IF ~LengthPositive(unsentPosts)
             THEN /\ ret' = TickEnd("nothing unsent", e, <<Len(rows)>>)
                  /\ UNCHANGED posts
             ELSE \E ses \in SesAnswers :
                    IF sendNewPosts(unsentPosts, ses).thrown
                    THEN /\ ret' = TickEnd("send failed", e, <<Len(rows)>>)
                         /\ UNCHANGED posts
                    ELSE /\ ret' = TickEnd("marked", e, <<Len(rows)>>)
                         /\ posts' = UpdateSent(IdsOf(unsentPosts))
    /\ tick' = Ended(e)
    /\ UNCHANGED <<feeds, nextFeedId, nextPostId, proc, booted, downlevel, saver>>

\* a query of execution e of processFeeds fails: sql() logs the error and
\* calls process.exit(1); processFeeds' own catch is never reached
tickStorageError(e) ==
    /\ Running
    /\ BagIn(e, tick)
    /\ Exit
    /\ ret' = TickEnd("storage error", e, << >>)
    /\ UNCHANGED <<feeds, posts, nextFeedId, nextPostId, booted, downlevel>>

\* the program is started again on the same database
restart ==
    /\ proc = "exited"
    /\ proc' = "running"
    /\ booted' = FALSE
    /\ downlevel' = FALSE
    /\ ret' = NoRet
    /\ UNCHANGED <<feeds, posts, nextFeedId, nextPostId, tick, saver>>

\* ------------------------------------------------------ specifications
\* the batches a caller passes to saveNewPosts: what fetchFeed returns for
\* a registered feed (the feed may be gone by the time a row is inserted)
Batches == {fetchFeed(f.url, f.id, now, net) : f \in feeds, now \in Times, net \in Nets}

\* the id lists a caller passes to markPostsAsSent: ids it has read off
\* rows, which may be gone by now
IdLists == SUBSET (1..(nextPostId - 1))

StoreNext ==
    \/ \E u \in Urls : addFeed(u)
    \/ \E u \in Urls : removeFeed(u)
    \/ \E b \in Batches : saveNewPosts(b, MaxSavers)
    \/ \E left \in BagToSet(saver) : saveInsert(left)
    \/ \E left \in BagToSet(saver) : saveStorageError(left)
    \/ restart

TickNext ==
    \/ startCronJob
    \/ cronFire
    \/ \E e \in BagToSet(tick) : tickListed(e)
    \/ \E e \in BagToSet(tick) : tickSelected(e)
    \/ \E e \in BagToSet(tick) : tickStorageError(e)

Next ==
    \/ StoreNext
    \/ TickNext
    \/ callGetUnsentPosts
    \/ \E ids \in IdLists : markPostsAsSent(ids)
    \/ callSendNewPosts
    \/ \E u \in Urls : appAddFeed(u)

Spec == Init /\ [][Next]_vars

\* the feed and article tables under calls of saveNewPosts that run side
\* by side, and registrations and removals between their inserts
StoreSpec == Init /\ [][StoreNext]_vars

\* the services alone, one call of saveNewPosts at a time
CallNext ==
    \/ \E u \in Urls : addFeed(u)
    \/ \E u \in Urls : removeFeed(u)
    \/ \E b \in Batches : saveNewPosts(b, 1)
    \/ \E left \in BagToSet(saver) : saveInsert(left)
    \/ \E left \in BagToSet(saver) : saveStorageError(left)
    \/ callGetUnsentPosts
    \/ \E ids \in IdLists : markPostsAsSent(ids)
    \/ restart

CallSpec == Init /\ [][CallNext]_vars

\* the scheduled pipeline, beside one caller that registers and removes
\* feeds and stores candidates
AppNext ==
    \/ TickNext
    \/ \E u \in Urls : addFeed(u)
    \/ \E u \in Urls : removeFeed(u)
    \/ \E b \in Batches : saveNewPosts(b, 1)
    \/ \E left \in BagToSet(saver) : saveInsert(left)
    \/ restart

AppSpec == Init /\ [][AppNext]_vars

\* the schedule keeps coming due and a pending query is answered, as long
\* as the process runs
AppFairSpec ==
    /\ AppSpec
    /\ WF_vars(startCronJob)
    /\ WF_vars(cronFire)
    /\ \A e \in Executions : WF_vars(tickListed(e)) /\ WF_vars(tickSelected(e))

\* the program with its add command, beside a caller that removes feeds
CliNext ==
    \/ TickNext
    \/ \E u \in Urls : appAddFeed(u)
    \/ \E u \in Urls : removeFeed(u)
    \/ restart

CliSpec == Init /\ [][CliNext]_vars

\* the scheduled pipeline, beside one caller that registers and removes
\* feeds, stores candidates, marks articles sent and sends digests
AllNext ==
    \/ AppNext
    \/ \E ids \in IdLists : markPostsAsSent(ids)
    \/ callSendNewPosts

AllSpec == Init /\ [][AllNext]_vars

\* ================================================================ claims

\* the rows an array value holds, and whether it is newest first
ItemsOf(v) == {v.items[i] : i \in 1..Len(v.items)}
NewestFirst(v) ==
    \A i, j \in 1..Len(v.items) : i < j => v.items[i].pubDate >= v.items[j].pubDate

\* the stored articles with a candidate's title
SameTitle(c) == {p \in posts : p.title = c.title}

\* C2: at every moment at most one execution of processFeeds is in
\* progress, the startup call and every scheduled firing counted.
C2_TicksNeverOverlap == BagCardinality(tick) <= 1

\* C3: no two stored articles share a fingerprint, and an insert of a
\* candidate whose title is already stored adds no row and raises no
\* error: the store is as before and saveNewPosts goes on.
C3_UniqueFingerprint == \A p, q \in posts : p.hash = q.hash => p = q
C3_DedupStep ==
    \A left \in BagToSet(saver) :
        (saveInsert(left) /\ SameTitle(Head(left)) # {}) =>
            /\ posts' = posts
            /\ proc' = "running"
            /\ ret'.affectedRows = 0
            /\ Cardinality({p \in posts' : p.title = Head(left).title}) = 1
C3_IdempotentIngestion == [](C3_UniqueFingerprint) /\ [][C3_DedupStep]_vars
\* an insert of an already stored title has just been skipped
C3_Witness ==
    /\ ret.op = "insert"
    /\ ret.affectedRows = 0
    /\ Cardinality(SameTitle(ret.val)) = 1
    /\ proc = "running"

\* C5: an article stored unsent is, while it exists, eventually marked
\* sent by the pipeline, provided executions of processFeeds keep ending
\* without a storage error.
TickEndedWell == ret.op = "processFeeds" /\ ret.outcome # "storage error"
StoredUnsent(id) == \E p \in posts : p.id = id /\ ~p.sent
SentOrGone(id) == \A p \in posts : p.id = id => p.sent
C5_EventuallySent ==
    ([]<>TickEndedWell) => \A id \in 1..MaxPostId : StoredUnsent(id) ~> SentOrGone(id)

\* C6: when an execution of processFeeds ran while one listed feed could
\* not be fetched and ended without a storage error, every article of
\* every listed, still registered feed that could be fetched is stored
\* (or was found stored already).
Ingested(c) == \E p \in posts : p.hash = SHA2(c.title) \/ p.link = c.link
AllIngested(batch) == \A i \in 1..Len(batch) : Ingested(batch[i])
C6_FailureIsolation ==
    (TickEndedWell /\ \E g \in ret.listed : ret.net[g] = "down") =>
        \A f \in feeds, now \in Times :
            (f.id \in ret.listed /\ ret.net[f.id] = "up") =>
                AllIngested(fetchFeed(f.url, f.id, now, ret.net[f.id]))

\* C7: a storage error in an execution of processFeeds ends that
\* execution only: the process keeps running.
C7_StorageErrorEndsTickOnly ==
    (ret.op = "processFeeds" /\ ret.outcome = "storage error") => proc = "running"

\* C9: getUnsentPosts returns exactly the stored articles with sent =
\* FALSE, all of them, as a sequence ordered newest first.
C9_ReturnsAllUnsent ==
    ret.op = "getUnsentPosts" =>
        /\ ret.val.kind = "array"
        /\ ItemsOf(ret.val) = SelectUnsent
        /\ Len(ret.val.items) = Cardinality(SelectUnsent)
        /\ NewestFirst(ret.val)

\* C11: in every step of every operation, an article that is sent before
\* the step and still exists after it is still sent; storing a candidate
\* with the title of a sent article does not reset it.
C11_SentMonotonic ==
    [][\A p \in posts : p.sent => \A q \in posts' : q.id = p.id => q.sent]_vars
\* a candidate with the title of a sent article has just been skipped
C11_Witness ==
    /\ ret.op = "insert"
    /\ ret.affectedRows = 0
    /\ \E p \in posts : p.title = ret.val.title /\ p.sent

\* C12: no two feeds have the same url, and an addFeed of a registered url
\* fails with an error its caller can recover from: the process runs on.
C12_DuplicateFeedError ==
    /\ \A f, g \in feeds : f.url = g.url => f = g
    /\ (ret.op = "addFeed" /\ ret.error = "ER_DUP_ENTRY") => proc = "running"

\* C13: every stored article's feedId is the id of a registered feed, also
\* while saveNewPosts is storing the candidates of a feed being removed,
\* and a removeFeed step keeps exactly the articles whose feed it keeps.
C13_Referential == \A p \in posts : p.feedId \in FeedIds
C13_RemoveStep ==
    \A u \in Urls :
        removeFeed(u) =>
            /\ posts' \subseteq posts
            /\ \A p \in posts : p \in posts' <=> \E f \in feeds' : f.id = p.feedId
C13_CascadeIntegrity == [](C13_Referential) /\ [][C13_RemoveStep]_vars
\* a feed has just been removed while a saveNewPosts still holds
\* candidates of it, and an article of another feed is stored
C13_Witness ==
    /\ ret.op = "removeFeed"
    /\ ret.affectedRows = 1
    /\ posts # {}
    /\ \E left \in BagToSet(saver) : Head(left).feedId \notin FeedIds

\* C14: removeFeed returns true when it deleted a feed and false when
\* there was none to delete.
C14_RemoveFeedReturns ==
    ret.op = "removeFeed" => ret.val = Bool(ret.affectedRows > 0)

\* C15: markPostsAsSent sets sent on exactly the stored articles whose ids
\* it is given and changes nothing else, whether or not some of the ids
\* are of articles that are gone; with no ids it issues no statement.
C15_MarkStep ==
    \A ids \in IdLists :
        markPostsAsSent(ids) =>
            /\ feeds' = feeds
            /\ proc' = "running"
            /\ Cardinality(posts') = Cardinality(posts)
            /\ \A p \in posts :
                  (IF p.id \in ids THEN [p EXCEPT !.sent = TRUE] ELSE p) \in posts'
            /\ ids = {} => (posts' = posts /\ ret'.statements = 0)
C15_MarkSentFrame == [][C15_MarkStep]_vars
\* markPostsAsSent has just returned from a list that held the id of a
\* stored article, now sent, and the id of an article that is gone
C15_Witness ==
    /\ ret.op = "markPostsAsSent"
    /\ ret.val = Undefined
    /\ \E i \in ret.ids : \E p \in posts : p.id = i /\ p.sent
    /\ \E i \in ret.ids : \A p \in posts : p.id # i

\* C16: the add command registers a feed only when validateFeedUrl has
\* succeeded: when the address cannot be fetched, does not parse or has no
\* RSS or Atom root, no feed row is inserted and the store is unchanged.
C16_AddStep ==
    (ret'.op = "App.addFeed" /\ (ret'.net = "down" \/ ret'.doc \notin {"rss", "atom"})) =>
        /\ ret'.validated # "true"
        /\ feeds' = feeds
        /\ posts' = posts
        /\ nextFeedId' = nextFeedId
C16_ValidateBeforeRegister == [][C16_AddStep]_vars
\* the add command has just failed on a document without a feed root, and
\* the address is not registered
C16_Witness ==
    /\ ret.op = "App.addFeed"
    /\ ret.net = "up"
    /\ ret.doc = "html"
    /\ ret.error = "Not a valid RSS feed"
    /\ \A f \in feeds : f.url # ret.url

\* C17: when the insert of one candidate fails with a storage error,
\* saveNewPosts goes on: the process runs and the candidates after the
\* failed one are still to be attempted.
C17_InsertFailureIsolated ==
    (ret.op = "saveNewPosts" /\ ret.error = "storage") =>
        /\ proc = "running"
        /\ ret.rest # << >> => BagIn(ret.rest, saver)

\* C18: no execution of processFeeds starts before startCronJob;
\* startCronJob starts one at once; and as long as the process runs,
\* firings keep starting executions.
C18_NoneBeforeStart == ~booted => tick = EmptyBag
C18_StartStep ==
    /\ (~booted /\ booted') => (BagCardinality(tick') = 1 /\ BagIn(AtListFeeds, tick'))
    /\ BagCardinality(tick') > BagCardinality(tick) => BagIn(AtListFeeds, tick')
C18_SchedulerKeepsFiring ==
    /\ [](C18_NoneBeforeStart)
    /\ [][C18_StartStep]_vars
    /\ (<>[](proc = "running")) => []<><<cronFire>>_vars
\* an execution started by a firing is in progress beside another
C18_Witness == booted /\ proc = "running" /\ BagCardinality(tick) = 2

\* C19: an execution of processFeeds reads the unsent articles only after
\* its loop has called fetchFeed and saveNewPosts for every feed that
\* listFeeds' query returned.
C19_ReadsAfterAllFeeds ==
    \A e \in BagToSet(tick) : e.pc = "getUnsentPosts" => e.fetched = e.listed

\* C20: an execution of processFeeds whose query of the unsent articles
\* returned no row calls neither sendNewPosts nor markPostsAsSent, and
\* sendNewPosts called with the empty list sends nothing and returns false.
C20_EmptySkips ==
    /\ (ret.op = "processFeeds" /\ ret.reads = <<0>>) => ret.outcome = "nothing unsent"
    /\ (ret.op = "sendNewPosts" /\ ret.batch = Arr(<< >>)) =>
           (~ret.out.val /\ ~ret.out.sent /\ ~ret.out.thrown)
\* an execution has just ended on an empty unsent set, all stored
\* articles being sent
C20_Witness ==
    /\ ret.op = "processFeeds"
    /\ ret.reads = <<0>>
    /\ ret.outcome = "nothing unsent"
    /\ posts # {}

\* C21: a stored article changes only by its sent flag going from false
\* to true and disappears only when its feed is removed; an insert of
\* saveNewPosts leaves every stored article exactly as it was.
C21_ArticleStep ==
    /\ \A p \in posts :
          \/ p \in posts'
          \/ ~p.sent /\ [p EXCEPT !.sent = TRUE] \in posts'
          \/ (\A q \in posts' : q.id # p.id) /\ (\A f \in feeds' : f.id # p.feedId)
    /\ ret'.op = "insert" => posts \subseteq posts'
C21_ArticleFrame == [][C21_ArticleStep]_vars
\* a candidate has just been skipped that shares its title with a stored
\* article and differs from it in link and feed
C21_Witness ==
    /\ ret.op = "insert"
    /\ ret.affectedRows = 0
    /\ \E p \in posts :
          /\ p.title = ret.val.title
          /\ p.link # ret.val.link
          /\ p.feedId # ret.val.feedId
          /\ p.sent

\* C22: after an execution of processFeeds that ended without a storage
\* error while a listed feed could be fetched, that feed's lastChecked is
\* set.
C22_LastCheckedSet ==
    (ret.op = "processFeeds" /\ ret.outcome # "storage error") =>
        \A f \in feeds :
            (f.id \in ret.listed /\ ret.net[f.id] = "up") => f.lastChecked # NULL

\* C23: an insert of a candidate whose title is stored for another feed
\* adds nothing and raises nothing, and the stored article keeps its feed.
C23_CrossFeedStep ==
    (/\ ret'.op = "insert"
     /\ \E p \in posts : p.title = ret'.val.title /\ p.feedId # ret'.val.feedId) =>
        /\ posts' = posts
        /\ ret'.affectedRows = 0
        /\ proc' = "running"
C23_TitleAloneDedup ==
    /\ [](\A p, q \in posts : p.title = q.title => p.feedId = q.feedId)
    /\ [][C23_CrossFeedStep]_vars
\* the candidate of a second feed has just been skipped for the title a
\* first, still registered feed had stored
C23_Witness ==
    /\ ret.op = "insert"
    /\ ret.affectedRows = 0
    /\ ret.val.feedId \in FeedIds
    /\ \E p \in posts : p.title = ret.val.title /\ p.feedId # ret.val.feedId

\* C24: no two stored articles share a link, the empty link included, and
\* an insert of a candidate whose link is stored under another title adds
\* nothing and raises nothing.
C24_UniqueLink == \A p, q \in posts : p.link = q.link => p = q
C24_LinkStep ==
    (/\ ret'.op = "insert"
     /\ \E p \in posts : p.link = ret'.val.link /\ p.title # ret'.val.title) =>
        /\ posts' = posts
        /\ ret'.affectedRows = 0
        /\ proc' = "running"
C24_LinkDrops == [](C24_UniqueLink) /\ [][C24_LinkStep]_vars
\* a candidate without a link has just been skipped, an article without a
\* link and with another title being stored
C24_Witness ==
    /\ ret.op = "insert"
    /\ ret.affectedRows = 0
    /\ ret.val.link = ""
    /\ ret.val.feedId \in FeedIds
    /\ \E p \in posts : p.link = "" /\ p.title # ret.val.title

====
